---- MODULE Spec2Model ----
(***************************************************************************)
(* Cost Manager: the CostManagerDB store (src/src/lib/idb.jsx) on top of   *)
(* an IndexedDB database.  One CostManagerDB instance at a time talks to   *)
(* one persistent database; every operation runs in a transaction of its  *)
(* own, and its promise is settled by the request's success or error       *)
(* event, which precedes the end of the transaction.                       *)
(***************************************************************************)
EXTENDS Integers, Sequences, FiniteSets, TLC

VARIABLES
    tz,                 \* environment: local time offset from UTC, in hours
    now,                \* environment: the clock read by new Date().getTime()
    db,                 \* this.db: "null" or "open"
    openRequest,        \* the request of init(): none, pending, upgrading, success, error
    dbVersion,          \* persistent: version of the database (0: it does not exist)
    objectStoreNames,   \* persistent: the object stores of the database
    indexNames,         \* persistent: the indexes of the 'costs' store
    records,            \* persistent: the records of the 'costs' store
    indexes,            \* persistent: index name -> set of <<key, primary key>>
    keyGen,             \* persistent: current number of the store's key generator
    txq,                \* calls in flight, one transaction each, in creation order
    last,               \* the call that finished most recently, with its outcome
    returned,           \* the ids addCost promises resolved with, in order
    app,                \* the React state of App and its async functions under way
    report              \* the React state of CostReport and the costs it is given

\* the user interface, which the store does not touch
ui == <<app, report>>

vars == <<tz, now, db, openRequest, dbVersion, objectStoreNames, indexNames,
          records, indexes, keyGen, txq, last, returned, app, report>>

----------------------------------------------------------------------------
(* Bounds of the model *)

\* total number of addCost calls
MaxAdds == 2
\* calls in flight at the same time
MaxInFlight == 2

\* offsets of local time from UTC, in hours (west, UTC, east)
TzOffsets == {-5, 0, 2}

----------------------------------------------------------------------------
(* Program constants *)

\* constructor(dbName = 'CostManagerDB', version = 1)
Version == 1

IndexNames == {"date", "category", "monthYear"}

----------------------------------------------------------------------------
(* Dates: a date string "YYYY-MM-DD" is the record [y, m, d]; an instant is *)
(* a number of hours since 2023-01-01T00:00Z.                               *)

D(y, m, d) == [y |-> y, m |-> m, d |-> d]

\* a string that is no date
InvalidDate == D(0, 0, 0)

IsLeap(y) == (y % 4 = 0 /\ y % 100 # 0) \/ y % 400 = 0

DaysInMonth(y, m) ==
    IF m = 2 THEN (IF IsLeap(y) THEN 29 ELSE 28)
    ELSE IF m \in {4, 6, 9, 11} THEN 30 ELSE 31

DaysInYear(y) == IF IsLeap(y) THEN 366 ELSE 365

RECURSIVE DaysBeforeMonth(_, _)
DaysBeforeMonth(y, m) ==
    IF m = 1 THEN 0 ELSE DaysBeforeMonth(y, m - 1) + DaysInMonth(y, m - 1)

RECURSIVE DaysBeforeYear(_)
DaysBeforeYear(y) ==
    IF y <= 2023 THEN 0 ELSE DaysBeforeYear(y - 1) + DaysInYear(y - 1)

DayNumber(s) == DaysBeforeYear(s.y) + DaysBeforeMonth(s.y, s.m) + (s.d - 1)

Parseable(s) ==
    /\ s.y >= 2023
    /\ s.m \in 1..12
    /\ s.d >= 1 /\ s.d <= DaysInMonth(s.y, s.m)

\* new Date(string): a date-only ISO string is midnight UTC of that day
NewDate(s) ==
    IF Parseable(s) THEN [valid |-> TRUE, time |-> DayNumber(s) * 24]
    ELSE [valid |-> FALSE, time |-> 0]

\* the calendar day of a day number
CivilFromDays(n) ==
    LET y == CHOOSE yy \in 2023..2026 :
                 DaysBeforeYear(yy) <= n /\ n < DaysBeforeYear(yy + 1)
        r == n - DaysBeforeYear(y)
        m == CHOOSE mm \in 1..12 :
                 DaysBeforeMonth(y, mm) <= r /\ r < DaysBeforeMonth(y, mm) + DaysInMonth(y, mm)
    IN  D(y, m, r - DaysBeforeMonth(y, m) + 1)

\* the local calendar day of a Date object
LocalDay(date, offset) == CivilFromDays((date.time + offset) \div 24)

\* `${date.getFullYear()}`
GetFullYear(date, offset) ==
    IF date.valid THEN ToString(LocalDay(date, offset).y) ELSE "NaN"

\* String(date.getMonth() + 1)
GetMonthPlus1(date, offset) ==
    IF date.valid THEN ToString(LocalDay(date, offset).m) ELSE "NaN"

\* s.padStart(2, '0')
PadStart2(s) == IF Len(s) < 2 THEN "0" \o s ELSE s

\* addCost: `${date.getFullYear()}-${String(date.getMonth() + 1).padStart(2, '0')}`
MonthYearOfDate(s, offset) ==
    LET date == NewDate(s)
    IN  GetFullYear(date, offset) \o "-" \o PadStart2(GetMonthPlus1(date, offset))

\* getCostsByMonth: `${year}-${String(month).padStart(2, '0')}`
MonthYearKey(year, month) == ToString(year) \o "-" \o PadStart2(ToString(month))

----------------------------------------------------------------------------
(* Inputs of the calls *)

Lunch == [amount |-> 50, category |-> "Food", description |-> "Lunch",
          date |-> D(2024, 3, 5)]
Snack == [amount |-> 20, category |-> "Food", description |-> "Snack",
          date |-> D(2024, 3, 20)]
Rent == [amount |-> 100, category |-> "Housing", description |-> "Rent",
         date |-> D(2024, 4, 1)]
\* an expense object that carries id, monthYear and timestamp fields of its own
Carry == [amount |-> 20, category |-> "Housing", description |-> "Carry",
          date |-> D(2024, 12, 31), id |-> 2, monthYear |-> "1999-01",
          timestamp |-> 0]
\* an expense whose date does not parse
BadDate == [amount |-> 20, category |-> "Other", description |-> "BadDate",
            date |-> InvalidDate]

Expenses == {Lunch, Snack, Rent, Carry, BadDate}

\* the (year, month) arguments of the queries
Months == {[year |-> 2024, month |-> 3], [year |-> 2024, month |-> 4],
           [year |-> 2024, month |-> 12]}

\* the arguments of deleteCost
Ids == 1..(MaxAdds + 1)

----------------------------------------------------------------------------
(* The 'costs' object store: keyPath 'id', autoIncrement, three indexes *)

\* { ...cost, monthYear, timestamp: new Date().getTime() }
CostEntry(cost, offset, time) ==
    [f \in DOMAIN cost \cup {"monthYear", "timestamp"} |->
        IF f = "monthYear" THEN MonthYearOfDate(cost.date, offset)
        ELSE IF f = "timestamp" THEN time
        ELSE cost[f]]

\* the key of a value under keyPath 'id': the value's own id when it has one,
\* else the key generator's current number
KeyFor(value, gen) == IF "id" \in DOMAIN value THEN value.id ELSE gen

\* the key generator after storing a value under a key
NextKeyGen(value, gen) ==
    IF "id" \in DOMAIN value
    THEN (IF value.id >= gen THEN value.id + 1 ELSE gen)
    ELSE gen + 1

\* the record stored for a value: the key is injected at the key path
StoredRecord(value, key) ==
    [f \in DOMAIN value \cup {"id"} |-> IF f = "id" THEN key ELSE value[f]]

KeyExists(key) == \E r \in records : r.id = key

\* variant: the delete takes the key as the upper end of a key range
StoreDelete_UpTo(recs, key) == {r \in recs : r.id > key}

\* store.delete(key)
StoreDelete(recs, key) == {r \in recs : r.id # key}

AddToIndexes(idx, r) ==
    [n \in DOMAIN idx |-> IF n \in DOMAIN r THEN idx[n] \cup {<<r[n], r.id>>} ELSE idx[n]]

\* variant: the delete clears the entry of the monthYear index only
RemoveFromIndexes_MonthYearOnly(idx, key) ==
    [n \in DOMAIN idx |-> IF n = "monthYear" THEN {e \in idx[n] : e[2] # key} ELSE idx[n]]

RemoveFromIndexes(idx, key) ==
    [n \in DOMAIN idx |-> {e \in idx[n] : e[2] # key}]

\* records in ascending order of primary key
RECURSIVE SortById(_)
SortById(S) ==
    IF S = {} THEN <<>>
    ELSE LET r == CHOOSE x \in S : \A z \in S : x.id <= z.id
         IN  <<r>> \o SortById(S \ {r})

\* index.getAll(key): the records the index lists under the key
IndexGetAll(name, key) ==
    SortById({r \in records : <<key, r.id>> \in indexes[name]})

\* getCostsByMonth: store.index('monthYear').getAll(`${year}-${month padded}`)
MonthQuery(year, month) == IndexGetAll("monthYear", MonthYearKey(year, month))

\* variant: acc[cost.category] = cost.amount
ReduceStep_Overwrite(acc, cost) ==
    [c \in DOMAIN acc \cup {cost.category} |->
        IF c = cost.category THEN cost.amount ELSE acc[c]]

\* acc[cost.category] = (acc[cost.category] || 0) + cost.amount
ReduceStep(acc, cost) ==
    LET old == IF cost.category \in DOMAIN acc /\ acc[cost.category] # 0
               THEN acc[cost.category] ELSE 0
    IN  [c \in DOMAIN acc \cup {cost.category} |->
            IF c = cost.category THEN old + cost.amount ELSE acc[c]]

\* costs.reduce(step, {})
RECURSIVE Reduce(_, _)
Reduce(costs, acc) ==
    IF costs = <<>> THEN acc ELSE Reduce(Tail(costs), ReduceStep(acc, Head(costs)))

EmptyObject == [c \in {} |-> 0]

\* variant: a category whose total is zero is left out of the mapping
CategoryTotals_NoZero(year, month) ==
    LET totals == Reduce(MonthQuery(year, month), EmptyObject)
    IN  [c \in {k \in DOMAIN totals : totals[k] # 0} |-> totals[c]]

\* getCostsByCategory: the reduction of the month's records
CategoryTotals(year, month) == Reduce(MonthQuery(year, month), EmptyObject)

----------------------------------------------------------------------------
(* Calls and transactions *)

NotInitialized == "Database not initialized"

\* resolve() of deleteCost
Undefined == "undefined"

ErrorOf(op) ==
    IF op = "addCost" THEN "Failed to add cost"
    ELSE IF op = "deleteCost" THEN "Failed to delete cost"
    ELSE "Failed to get costs"

ModeOf(op) == IF op \in {"addCost", "deleteCost"} THEN "readwrite" ELSE "readonly"

Remove(q, i) == SubSeq(q, 1, i - 1) \o SubSeq(q, i + 1, Len(q))

\* variant: a transaction starts without waiting for the transactions before it
CanRun_NoWait(i) ==
    /\ i \in 1..Len(txq)
    /\ txq[i].phase = "pending"

\* a transaction starts once no earlier transaction on 'costs' conflicts with it
CanRun(i) ==
    /\ i \in 1..Len(txq)
    /\ txq[i].phase = "pending"
    /\ \A j \in 1..(i - 1) :
          ModeOf(txq[j].op) = "readonly" /\ ModeOf(txq[i].op) = "readonly"

Finished(c, promise, value, txn) ==
    [op |-> c.op, arg |-> c.arg, promise |-> promise, value |-> value, txn |-> txn]

\* if (!this.db) throw new Error('Database not initialized')
Throw(op, arg) ==
    /\ last' = [op |-> op, arg |-> arg, promise |-> "rejected", txn |-> "none",
                value |-> NotInitialized]
    /\ UNCHANGED <<tz, now, db, openRequest, dbVersion, objectStoreNames, indexNames,
                   records, indexes, keyGen, txq, returned>>

\* this.db.transaction(['costs'], mode) and the request placed in it
Begin(call) ==
    /\ Len(txq) < MaxInFlight
    /\ txq' = Append(txq, call)
    /\ UNCHANGED <<tz, db, openRequest, dbVersion, objectStoreNames, indexNames,
                   records, indexes, keyGen, last, returned>>

----------------------------------------------------------------------------
(* CostManagerDB *)

\* new CostManagerDB() in a later session on the same database
Construct ==
    /\ openRequest \in {"success", "error"}
    /\ txq = <<>>
    /\ db' = "null"
    /\ openRequest' = "none"
    /\ UNCHANGED <<tz, now, dbVersion, objectStoreNames, indexNames,
                   records, indexes, keyGen, txq, last, returned>>

\* init(): indexedDB.open(this.dbName, this.version)
init ==
    /\ openRequest = "none"
    /\ openRequest' = "pending"
    /\ UNCHANGED <<tz, now, db, dbVersion, objectStoreNames, indexNames,
                   records, indexes, keyGen, txq, last, returned>>

\* variant: the upgrade creates the store without its monthYear index
onupgradeneeded_TwoIndexes ==
    /\ openRequest = "pending"
    /\ dbVersion < Version
    /\ openRequest' = "upgrading"
    /\ dbVersion' = Version
    /\ IF "costs" \notin objectStoreNames
       THEN /\ objectStoreNames' = objectStoreNames \cup {"costs"}
            /\ indexNames' = {"date", "category"}
       ELSE UNCHANGED <<objectStoreNames, indexNames>>
    /\ UNCHANGED <<tz, now, db, records, indexes, keyGen, txq, last, returned>>

\* request.onupgradeneeded: create the store and its indexes when missing
onupgradeneeded ==
    /\ openRequest = "pending"
    /\ dbVersion < Version
    /\ openRequest' = "upgrading"
    /\ dbVersion' = Version
    /\ IF "costs" \notin objectStoreNames
       THEN /\ objectStoreNames' = objectStoreNames \cup {"costs"}
            /\ indexNames' = IndexNames
       ELSE UNCHANGED <<objectStoreNames, indexNames>>
    /\ UNCHANGED <<tz, now, db, records, indexes, keyGen, txq, last, returned>>

\* request.onsuccess of the open request: this.db = event.target.result
onsuccess ==
    /\ \/ openRequest = "pending" /\ dbVersion = Version
       \/ openRequest = "upgrading"
    /\ openRequest' = "success"
    /\ db' = "open"
    /\ UNCHANGED <<tz, now, dbVersion, objectStoreNames, indexNames,
                   records, indexes, keyGen, txq, last, returned>>

\* variant: the error handler of the open request keeps the request's result
onerror_SetsHandle ==
    /\ openRequest \in {"pending", "upgrading"}
    /\ openRequest' = "error"
    /\ db' = "open"
    /\ IF openRequest = "upgrading"
       THEN /\ dbVersion' = 0
            /\ objectStoreNames' = {}
            /\ indexNames' = {}
       ELSE UNCHANGED <<dbVersion, objectStoreNames, indexNames>>
    /\ UNCHANGED <<tz, now, records, indexes, keyGen, txq, last, returned>>

\* request.onerror of the open request: reject(new Error('Failed to open database'));
\* a failed upgrade transaction is rolled back
onerror ==
    /\ openRequest \in {"pending", "upgrading"}
    /\ openRequest' = "error"
    /\ IF openRequest = "upgrading"
       THEN /\ dbVersion' = 0
            /\ objectStoreNames' = {}
            /\ indexNames' = {}
       ELSE UNCHANGED <<dbVersion, objectStoreNames, indexNames>>
    /\ UNCHANGED <<tz, now, db, records, indexes, keyGen, txq, last, returned>>

\* variant: addCost without the check of this.db
addCost_NoCheck(cost) ==
    /\ now <= MaxAdds
    /\ Begin([op |-> "addCost", arg |-> cost, phase |-> "pending",
              entry |-> CostEntry(cost, tz, now)])
    /\ now' = now + 1

addCost(cost) ==
    IF db = "null"
    THEN Throw("addCost", cost)
    ELSE /\ now <= MaxAdds
         /\ Begin([op |-> "addCost", arg |-> cost, phase |-> "pending",
                   entry |-> CostEntry(cost, tz, now)])
         /\ now' = now + 1

\* variant: the month query takes the records it lists out of the store
getCostsByMonth_Taking(year, month) ==
    IF db = "null"
    THEN Throw("getCostsByMonth", [year |-> year, month |-> month])
    ELSE /\ Len(txq) < MaxInFlight
         /\ txq' = Append(txq, [op |-> "getCostsByMonth",
                                arg |-> [year |-> year, month |-> month],
                                phase |-> "pending"])
         /\ records' = {r \in records : r.monthYear # MonthYearKey(year, month)}
         /\ indexes' = [n \in DOMAIN indexes |->
                           {e \in indexes[n] :
                               \E r \in records' : r.id = e[2]}]
         /\ UNCHANGED <<tz, now, db, openRequest, dbVersion, objectStoreNames,
                        indexNames, keyGen, last, returned>>

getCostsByMonth(year, month) ==
    IF db = "null"
    THEN Throw("getCostsByMonth", [year |-> year, month |-> month])
    ELSE /\ Begin([op |-> "getCostsByMonth", arg |-> [year |-> year, month |-> month],
                   phase |-> "pending"])
         /\ UNCHANGED now

\* const costs = await this.getCostsByMonth(year, month)
getCostsByCategory(year, month) ==
    IF db = "null"
    THEN Throw("getCostsByCategory", [year |-> year, month |-> month])
    ELSE /\ Begin([op |-> "getCostsByCategory", arg |-> [year |-> year, month |-> month],
                   phase |-> "pending"])
         /\ UNCHANGED now

deleteCost(id) ==
    IF db = "null"
    THEN Throw("deleteCost", [id |-> id])
    ELSE /\ Begin([op |-> "deleteCost", arg |-> [id |-> id], phase |-> "pending"])
         /\ UNCHANGED now

\* what the request of a call yields when it succeeds
ResultOf(c) ==
    IF c.op = "addCost" THEN KeyFor(c.entry, keyGen)
    ELSE IF c.op = "getCostsByMonth" THEN MonthQuery(c.arg.year, c.arg.month)
    ELSE IF c.op = "getCostsByCategory" THEN CategoryTotals(c.arg.year, c.arg.month)
    ELSE Undefined

\* variant: the add request succeeds also when the key is already in the store
RequestOnSuccess_AnyKey(i) ==
    /\ CanRun(i)
    /\ IF ModeOf(txq[i].op) = "readonly"
       THEN /\ txq' = Remove(txq, i)
            /\ last' = Finished(txq[i], "resolved", ResultOf(txq[i]), "complete")
       ELSE /\ txq' = [txq EXCEPT
                        ![i] = [phase |-> "settled", value |-> ResultOf(txq[i])] @@ txq[i]]
            /\ UNCHANGED last
    /\ returned' = IF txq[i].op = "addCost"
                   THEN Append(returned, ResultOf(txq[i])) ELSE returned
    /\ UNCHANGED <<tz, now, db, openRequest, dbVersion, objectStoreNames, indexNames,
                   records, indexes, keyGen>>

\* request.onsuccess = () => resolve(request.result).  A read-only
\* transaction has nothing to commit: it is complete with its request.
RequestOnSuccess(i) ==
    /\ CanRun(i)
    /\ txq[i].op = "addCost" => ~KeyExists(KeyFor(txq[i].entry, keyGen))
    /\ IF ModeOf(txq[i].op) = "readonly"
       THEN /\ txq' = Remove(txq, i)
            /\ last' = Finished(txq[i], "resolved", ResultOf(txq[i]), "complete")
       ELSE /\ txq' = [txq EXCEPT
                        ![i] = [phase |-> "settled", value |-> ResultOf(txq[i])] @@ txq[i]]
            /\ UNCHANGED last
    /\ returned' = IF txq[i].op = "addCost"
                   THEN Append(returned, ResultOf(txq[i])) ELSE returned
    /\ UNCHANGED <<tz, now, db, openRequest, dbVersion, objectStoreNames, indexNames,
                   records, indexes, keyGen>>

\* variant: a failed month query is answered with an empty result
RequestOnError_EmptyResult(i) ==
    /\ CanRun(i)
    /\ last' = IF txq[i].op = "getCostsByMonth"
               THEN Finished(txq[i], "resolved", <<>>, "aborted")
               ELSE Finished(txq[i], "rejected", ErrorOf(txq[i].op), "aborted")
    /\ txq' = Remove(txq, i)
    /\ UNCHANGED <<tz, now, db, openRequest, dbVersion, objectStoreNames, indexNames,
                   records, indexes, keyGen, returned>>

\* request.onerror = () => reject(new Error(...)); the unhandled error event
\* aborts the transaction.  A request fails when the storage fails, and
\* store.add fails when the key is already in the store.
RequestOnError(i) ==
    /\ CanRun(i)
    /\ last' = Finished(txq[i], "rejected", ErrorOf(txq[i].op), "aborted")
    /\ txq' = Remove(txq, i)
    /\ UNCHANGED <<tz, now, db, openRequest, dbVersion, objectStoreNames, indexNames,
                   records, indexes, keyGen, returned>>

\* the transaction commits: its write becomes durable
TransactionComplete(i) ==
    /\ i \in 1..Len(txq)
    /\ txq[i].phase = "settled"
    /\ LET c == txq[i]
       IN  /\ IF c.op = "addCost"
              THEN LET r == StoredRecord(c.entry, c.value)
                   IN  /\ records' = records \cup {r}
                       /\ indexes' = AddToIndexes(indexes, r)
                       /\ keyGen' = NextKeyGen(c.entry, keyGen)
              ELSE IF c.op = "deleteCost"
              THEN /\ records' = StoreDelete(records, c.arg.id)
                   /\ indexes' = RemoveFromIndexes(indexes, c.arg.id)
                   /\ UNCHANGED keyGen
              ELSE UNCHANGED <<records, indexes, keyGen>>
           /\ last' = Finished(c, "resolved", c.value, "complete")
    /\ txq' = Remove(txq, i)
    /\ UNCHANGED <<tz, now, db, openRequest, dbVersion, objectStoreNames, indexNames,
                   returned>>

\* the commit fails (quota, I/O): the transaction aborts after the request's
\* success event, and nothing of it is stored
TransactionAbort(i) ==
    /\ i \in 1..Len(txq)
    /\ txq[i].phase = "settled"
    /\ ModeOf(txq[i].op) = "readwrite"
    /\ last' = Finished(txq[i], "resolved", txq[i].value, "aborted")
    /\ txq' = Remove(txq, i)
    /\ UNCHANGED <<tz, now, db, openRequest, dbVersion, objectStoreNames, indexNames,
                   records, indexes, keyGen, returned>>

----------------------------------------------------------------------------

(* The state of the React components after their first render *)

\* useState(new Date()): of the selected date, its local year and month are read
Today == [year |-> 2024, month |-> 3]

\* no async function of App is waiting to go on
NoJob == [kind |-> "none", year |-> 0, month |-> 0]

\* the useState calls of App; effect: the loadCosts effect is due, job: the
\* async function that goes on next, calls: the async function behind each call
\* in flight, console: console.error was called
useState_App(date) ==
    [db |-> "null", selectedDate |-> date, costs |-> <<>>, categoryTotals |-> EmptyObject,
     notification |-> [open |-> FALSE, message |-> "", severity |-> "success"],
     loading |-> TRUE, error |-> "null",
     effect |-> FALSE, job |-> NoJob, calls |-> <<>>, console |-> FALSE,
     started |-> 0, clicks |-> 0]

\* the useState calls of CostReport, with the costs it is given
useState_CostReport(costs) ==
    [costs |-> costs, order |-> "desc", orderBy |-> "date", page |-> 0,
     rowsPerPage |-> 10, search |-> <<>>]

----------------------------------------------------------------------------

NoCall == [op |-> "none", arg |-> [none |-> TRUE], promise |-> "none", txn |-> "none",
           value |-> Undefined]

Init ==
    /\ tz \in TzOffsets
    /\ now = 1
    /\ db = "null"
    /\ openRequest = "none"
    /\ dbVersion = 0
    /\ objectStoreNames = {}
    /\ indexNames = {}
    /\ records = {}
    /\ indexes = [n \in IndexNames |-> {}]
    /\ keyGen = 1
    /\ txq = <<>>
    /\ last = NoCall
    /\ returned = <<>>
    /\ app = useState_App(Today)
    /\ report = useState_CostReport(<<>>)

Next ==
    \/ Construct /\ UNCHANGED ui
    \/ init /\ UNCHANGED ui
    \/ onupgradeneeded /\ UNCHANGED ui
    \/ onsuccess /\ UNCHANGED ui
    \/ onerror /\ UNCHANGED ui
    \/ \E cost \in Expenses : addCost(cost) /\ UNCHANGED ui
    \/ \E ym \in Months : getCostsByMonth(ym.year, ym.month) /\ UNCHANGED ui
    \/ \E ym \in Months : getCostsByCategory(ym.year, ym.month) /\ UNCHANGED ui
    \/ \E id \in Ids : deleteCost(id) /\ UNCHANGED ui
    \/ \E i \in 1..MaxInFlight : RequestOnSuccess(i) /\ UNCHANGED ui
    \/ \E i \in 1..MaxInFlight : RequestOnError(i) /\ UNCHANGED ui
    \/ \E i \in 1..MaxInFlight : TransactionComplete(i) /\ UNCHANGED ui
    \/ \E i \in 1..MaxInFlight : TransactionAbort(i) /\ UNCHANGED ui

Spec == Init /\ [][Next]_vars

----------------------------------------------------------------------------
(* idb.openCostsDB (src/src/lib/idb.js): the same database behind an        *)
(* interface object that exists once the open request has succeeded.  Its  *)
(* open request has the handlers of init above; addCost stamps the entry   *)
(* with the current date, and getCostsByCategory catches what              *)
(* getCostsByMonth throws.                                                  *)

\* the clock when the session starts: 2024-03-31T22:00Z
ClockStart == DayNumber(D(2024, 3, 31)) * 24 + 22

\* new Date() at an instant of the clock
CurrentDate(time) == [valid |-> TRUE, time |-> time]

\* currentDate.toISOString(): the day and hour in UTC
ToISOString(date) ==
    LET day == CivilFromDays(date.time \div 24)
    IN  [y |-> day.y, m |-> day.m, d |-> day.d, h |-> date.time % 24]

\* cost items of the interface: the amount is the field sum
Coffee == [sum |-> 50, category |-> "Food", description |-> "Coffee"]
Ticket == [sum |-> 20, category |-> "Transportation", description |-> "Ticket"]

CostItems == {Coffee, Ticket}

\* costEntry = { sum, amount: cost.sum, category, description, date, monthYear, timestamp }
CostEntryOfItem(cost, offset, time) ==
    LET currentDate == CurrentDate(time)
    IN  [sum |-> cost.sum,
         amount |-> cost.sum,
         category |-> cost.category,
         description |-> cost.description,
         date |-> ToISOString(currentDate),
         monthYear |-> GetFullYear(currentDate, offset) \o "-"
                           \o PadStart2(GetMonthPlus1(currentDate, offset)),
         timestamp |-> time]

\* idb.openCostsDB(dbName, version): indexedDB.open(dbName, version)
openCostsDB ==
    /\ openRequest \in {"none", "success", "error"}
    /\ txq = <<>>
    /\ openRequest' = "pending"
    /\ db' = "null"
    /\ UNCHANGED <<tz, now, dbVersion, objectStoreNames, indexNames,
                   records, indexes, keyGen, txq, last, returned>>

dbInterface_addCost(cost) ==
    /\ db = "open"
    /\ now < ClockStart + MaxAdds
    /\ Begin([op |-> "addCost", arg |-> cost, phase |-> "pending",
              entry |-> CostEntryOfItem(cost, tz, now)])
    /\ now' = now + 1

dbInterface_getCostsByMonth(year, month) ==
    /\ db = "open"
    /\ Begin([op |-> "getCostsByMonth", arg |-> [year |-> year, month |-> month],
              phase |-> "pending"])
    /\ UNCHANGED now

\* try { const costs = await this.getCostsByMonth(year, month); ... }
dbInterface_getCostsByCategory(year, month) ==
    /\ db = "open"
    /\ Begin([op |-> "getCostsByCategory", arg |-> [year |-> year, month |-> month],
              phase |-> "pending"])
    /\ UNCHANGED now

dbInterface_deleteCost(id) ==
    /\ db = "open"
    /\ Begin([op |-> "deleteCost", arg |-> [id |-> id], phase |-> "pending"])
    /\ UNCHANGED now

CategoryFailure == "Failed to get costs by category"

\* request.onerror of a request of the interface; the rejection of
\* getCostsByMonth inside getCostsByCategory is caught there:
\* catch (error) { throw new Error('Failed to get costs by category') }
dbInterface_RequestOnError(i) ==
    /\ CanRun(i)
    /\ last' = Finished(txq[i], "rejected",
                        IF txq[i].op = "getCostsByCategory"
                        THEN CategoryFailure ELSE ErrorOf(txq[i].op),
                        "aborted")
    /\ txq' = Remove(txq, i)
    /\ UNCHANGED <<tz, now, db, openRequest, dbVersion, objectStoreNames, indexNames,
                   records, indexes, keyGen, returned>>

InitJs ==
    /\ tz \in TzOffsets
    /\ now = ClockStart
    /\ db = "null"
    /\ openRequest = "none"
    /\ dbVersion = 0
    /\ objectStoreNames = {}
    /\ indexNames = {}
    /\ records = {}
    /\ indexes = [n \in IndexNames |-> {}]
    /\ keyGen = 1
    /\ txq = <<>>
    /\ last = NoCall
    /\ returned = <<>>
    /\ app = useState_App(Today)
    /\ report = useState_CostReport(<<>>)

NextJs ==
    \/ openCostsDB /\ UNCHANGED ui
    \/ onupgradeneeded /\ UNCHANGED ui
    \/ onsuccess /\ UNCHANGED ui
    \/ onerror /\ UNCHANGED ui
    \/ \E cost \in CostItems : dbInterface_addCost(cost) /\ UNCHANGED ui
    \/ \E ym \in Months : dbInterface_getCostsByMonth(ym.year, ym.month) /\ UNCHANGED ui
    \/ \E ym \in Months : dbInterface_getCostsByCategory(ym.year, ym.month) /\ UNCHANGED ui
    \/ \E id \in Ids : dbInterface_deleteCost(id) /\ UNCHANGED ui
    \/ \E i \in 1..MaxInFlight : RequestOnSuccess(i) /\ UNCHANGED ui
    \/ \E i \in 1..MaxInFlight : dbInterface_RequestOnError(i) /\ UNCHANGED ui
    \/ \E i \in 1..MaxInFlight : TransactionComplete(i) /\ UNCHANGED ui
    \/ \E i \in 1..MaxInFlight : TransactionAbort(i) /\ UNCHANGED ui

SpecJs == InitJs /\ [][NextJs]_vars

----------------------------------------------------------------------------
(* A session that makes the calls of one scenario in order, each awaited:   *)
(* three adds, the list and the totals of March, the totals of April, the  *)
(* delete of the first record and the totals of March again.               *)

ScenarioExpenses == <<Lunch, Snack, Rent>>

\* the call before has resolved
Awaited(op) == txq = <<>> /\ last.op = op /\ last.promise = "resolved"

ScenarioAdd ==
    /\ db = "open"
    /\ now \in 0..(Len(ScenarioExpenses) - 1)
    /\ IF now = 0 THEN txq = <<>> /\ last = NoCall ELSE Awaited("addCost")
    /\ addCost(ScenarioExpenses[now + 1])

ScenarioListMarch ==
    /\ now = Len(ScenarioExpenses)
    /\ Awaited("addCost")
    /\ getCostsByMonth(2024, 3)

ScenarioTotalsMarch ==
    /\ Awaited("getCostsByMonth") \/ Awaited("deleteCost")
    /\ getCostsByCategory(2024, 3)

ScenarioTotalsApril ==
    /\ Awaited("getCostsByCategory")
    /\ last.arg.month = 3
    /\ getCostsByCategory(2024, 4)

\* the delete of the id the first add resolved with
ScenarioDelete ==
    /\ Awaited("getCostsByCategory")
    /\ last.arg.month = 4
    /\ deleteCost(returned[1])

\* the clock starts one tick earlier than in Init: the scenario has three adds
InitScenario ==
    /\ tz \in TzOffsets
    /\ now = 0
    /\ db = "null"
    /\ openRequest = "none"
    /\ dbVersion = 0
    /\ objectStoreNames = {}
    /\ indexNames = {}
    /\ records = {}
    /\ indexes = [n \in IndexNames |-> {}]
    /\ keyGen = 1
    /\ txq = <<>>
    /\ last = NoCall
    /\ returned = <<>>
    /\ app = useState_App(Today)
    /\ report = useState_CostReport(<<>>)

NextScenario ==
    \/ init /\ UNCHANGED ui
    \/ onupgradeneeded /\ UNCHANGED ui
    \/ onsuccess /\ UNCHANGED ui
    \/ onerror /\ UNCHANGED ui
    \/ ScenarioAdd /\ UNCHANGED ui
    \/ ScenarioListMarch /\ UNCHANGED ui
    \/ ScenarioTotalsMarch /\ UNCHANGED ui
    \/ ScenarioTotalsApril /\ UNCHANGED ui
    \/ ScenarioDelete /\ UNCHANGED ui
    \/ \E i \in 1..MaxInFlight : RequestOnSuccess(i) /\ UNCHANGED ui
    \/ \E i \in 1..MaxInFlight : RequestOnError(i) /\ UNCHANGED ui
    \/ \E i \in 1..MaxInFlight : TransactionComplete(i) /\ UNCHANGED ui
    \/ \E i \in 1..MaxInFlight : TransactionAbort(i) /\ UNCHANGED ui

SpecScenario == InitScenario /\ [][NextScenario]_vars

----------------------------------------------------------------------------
(* An opened store that holds the records of earlier addCost calls, among   *)
(* them amounts that are zero or cancel out, read by the two queries.      *)

Amounts == {-50, 0, 50}

Categories == {"Food", "Housing"}

Purchases ==
    [amount : Amounts, category : Categories, description : {"Item"},
     date : {D(2024, 3, 5), D(2024, 4, 10)}]

\* the records after the addCost calls of a sequence of expenses have committed
StoreAfter(seq, offset) ==
    {StoredRecord(CostEntry(seq[k], offset, k), k) : k \in 1..Len(seq)}

InitTotals ==
    /\ tz \in TzOffsets
    /\ \E n \in 0..MaxAdds :
          /\ \E seq \in [1..n -> Purchases] : records = StoreAfter(seq, tz)
          /\ keyGen = n + 1
          /\ now = n + 1
          /\ returned = [k \in 1..n |-> k]
    /\ indexes = [nm \in IndexNames |-> {<<r[nm], r.id>> : r \in records}]
    /\ db = "open"
    /\ openRequest = "success"
    /\ dbVersion = Version
    /\ objectStoreNames = {"costs"}
    /\ indexNames = IndexNames
    /\ txq = <<>>
    /\ last = NoCall
    /\ app = useState_App(Today)
    /\ report = useState_CostReport(<<>>)

NextTotals ==
    \/ \E ym \in Months : getCostsByMonth(ym.year, ym.month) /\ UNCHANGED ui
    \/ \E ym \in Months : getCostsByCategory(ym.year, ym.month) /\ UNCHANGED ui
    \/ \E i \in 1..MaxInFlight : RequestOnSuccess(i) /\ UNCHANGED ui
    \/ \E i \in 1..MaxInFlight : RequestOnError(i) /\ UNCHANGED ui

SpecTotals == InitTotals /\ [][NextTotals]_vars

----------------------------------------------------------------------------
(* The store under the reload of App.jsx: both queries of a month are       *)
(* issued together, while writes are in flight.                            *)

\* loadCosts: Promise.all([db.getCostsByMonth(y, m), db.getCostsByCategory(y, m)]);
\* both calls create their transaction and request before either is answered
loadCosts(year, month) ==
    /\ db = "open"
    /\ Len(txq) < MaxInFlight
    /\ txq' = txq \o <<[op |-> "getCostsByMonth",
                        arg |-> [year |-> year, month |-> month], phase |-> "pending"],
                       [op |-> "getCostsByCategory",
                        arg |-> [year |-> year, month |-> month], phase |-> "pending"]>>
    /\ UNCHANGED <<tz, now, db, openRequest, dbVersion, objectStoreNames, indexNames,
                   records, indexes, keyGen, last, returned>>

NextConcurrent ==
    \/ init /\ UNCHANGED ui
    \/ onupgradeneeded /\ UNCHANGED ui
    \/ onsuccess /\ UNCHANGED ui
    \/ onerror /\ UNCHANGED ui
    \/ \E ym \in Months : loadCosts(ym.year, ym.month) /\ UNCHANGED ui
    \/ \E cost \in Expenses : addCost(cost) /\ UNCHANGED ui
    \/ \E id \in Ids : deleteCost(id) /\ UNCHANGED ui
    \/ \E i \in 1..(MaxInFlight + 1) : RequestOnSuccess(i) /\ UNCHANGED ui
    \/ \E i \in 1..(MaxInFlight + 1) : RequestOnError(i) /\ UNCHANGED ui
    \/ \E i \in 1..(MaxInFlight + 1) : TransactionComplete(i) /\ UNCHANGED ui
    \/ \E i \in 1..(MaxInFlight + 1) : TransactionAbort(i) /\ UNCHANGED ui

SpecConcurrent == Init /\ [][NextConcurrent]_vars

----------------------------------------------------------------------------
(* A later release opens the database of an earlier one with a higher      *)
(* version: new CostManagerDB(dbName, Version + 1).  The database exists   *)
(* at Version, and another connection to it (another tab of the earlier    *)
(* release) may be open.  That connection closes when its tab is closed:   *)
(* neither implementation registers onversionchange to close its           *)
(* connection, nor onblocked on the open request.                           *)

NewerVersion == Version + 1

\* init(): indexedDB.open(this.dbName, this.version) with the higher version
upgrade_init ==
    /\ openRequest = "none"
    /\ openRequest' = "pending"
    /\ UNCHANGED <<tz, now, db, dbVersion, objectStoreNames, indexNames,
                   records, indexes, keyGen, txq, last, returned>>

\* the blocked event of the open request: another connection is still open
\* after its versionchange event.  The request has no onblocked handler, so
\* nothing is done with the promise.
upgrade_onblocked ==
    /\ openRequest = "pending"
    /\ dbVersion < NewerVersion
    /\ openRequest' = "blocked"
    /\ UNCHANGED <<tz, now, db, dbVersion, objectStoreNames, indexNames,
                   records, indexes, keyGen, txq, last, returned>>

\* the other connection is closed (its tab is closed): the open goes on
OtherConnectionCloses ==
    /\ openRequest = "blocked"
    /\ openRequest' = "unblocked"
    /\ UNCHANGED <<tz, now, db, dbVersion, objectStoreNames, indexNames,
                   records, indexes, keyGen, txq, last, returned>>

\* request.onupgradeneeded: the store exists, so nothing is created
upgrade_onupgradeneeded ==
    /\ openRequest \in {"pending", "unblocked"}
    /\ dbVersion < NewerVersion
    /\ openRequest' = "upgrading"
    /\ dbVersion' = NewerVersion
    /\ IF "costs" \notin objectStoreNames
       THEN /\ objectStoreNames' = objectStoreNames \cup {"costs"}
            /\ indexNames' = IndexNames
       ELSE UNCHANGED <<objectStoreNames, indexNames>>
    /\ UNCHANGED <<tz, now, db, records, indexes, keyGen, txq, last, returned>>

\* request.onsuccess: this.db = event.target.result; resolve(this.db)
upgrade_onsuccess ==
    /\ openRequest = "upgrading"
    /\ openRequest' = "success"
    /\ db' = "open"
    /\ UNCHANGED <<tz, now, dbVersion, objectStoreNames, indexNames,
                   records, indexes, keyGen, txq, last, returned>>

\* request.onerror: reject(new Error('Failed to open database')); a failed
\* upgrade is rolled back to the version the database had
upgrade_onerror ==
    /\ openRequest \in {"pending", "unblocked", "upgrading"}
    /\ openRequest' = "error"
    /\ dbVersion' = Version
    /\ UNCHANGED <<tz, now, db, objectStoreNames, indexNames,
                   records, indexes, keyGen, txq, last, returned>>

InitOpen ==
    /\ tz \in TzOffsets
    /\ \E n \in 0..1 :
          /\ \E seq \in [1..n -> Purchases] : records = StoreAfter(seq, tz)
          /\ keyGen = n + 1
          /\ now = n + 1
          /\ returned = [k \in 1..n |-> k]
    /\ indexes = [nm \in IndexNames |-> {<<r[nm], r.id>> : r \in records}]
    /\ db = "null"
    /\ openRequest = "none"
    /\ dbVersion = Version
    /\ objectStoreNames = {"costs"}
    /\ indexNames = IndexNames
    /\ txq = <<>>
    /\ last = NoCall
    /\ app = useState_App(Today)
    /\ report = useState_CostReport(<<>>)

\* the events the storage engine owes an open request that is not blocked
OpenEvents ==
    \/ upgrade_onupgradeneeded
    \/ upgrade_onsuccess

NextOpen ==
    \/ upgrade_init /\ UNCHANGED ui
    \/ upgrade_onblocked /\ UNCHANGED ui
    \/ OtherConnectionCloses /\ UNCHANGED ui
    \/ upgrade_onupgradeneeded /\ UNCHANGED ui
    \/ upgrade_onsuccess /\ UNCHANGED ui
    \/ upgrade_onerror /\ UNCHANGED ui

\* the engine delivers the events it owes; nothing makes a user close a tab
SpecOpen == InitOpen /\ [][NextOpen]_vars /\ WF_openRequest(OpenEvents)

----------------------------------------------------------------------------
(* App (src/src/App.jsx) on a CostManagerDB: the initDb effect, the         *)
(* loadCosts effect, the date picker, the form's submit and the report's    *)
(* delete button.  An async function runs up to its next await in one step; *)
(* what follows an await runs when the awaited promise settles, before any  *)
(* other event is handled.  The handlers of a render see the state of that  *)
(* render: the selected date a handler reads after its await is the one of  *)
(* the render in which the user acted.                                      *)

\* user actions other than submissions of the form
MaxClicks == 2
\* async functions of App under way at the same time
MaxAsync == 2

\* what the form can submit: amount, category, description, date
FormData == {Lunch, Rent}

\* the months the date picker is set to
SelectableMonths == {[year |-> 2024, month |-> 3], [year |-> 2024, month |-> 4]}

InitFailed == "Failed to initialize database. Please try refreshing the page."

\* the three returns of App
View(a) ==
    IF a.loading /\ a.db = "null" THEN "spinner"
    ELSE IF a.error # "null" THEN "error"
    ELSE "main"

Idle == app.job.kind = "none"

\* the async functions under way
Running(a) == {a.calls[j].h : j \in 1..Len(a.calls)}

\* the user can act on the form, the date picker and the report
Interactive ==
    /\ Idle
    /\ ~app.effect
    /\ View(app) = "main"
    /\ Cardinality(Running(app)) < MaxAsync

showNotification(a, message, severity) ==
    [a EXCEPT !.notification = [open |-> TRUE, message |-> message, severity |-> severity]]

\* the catch blocks of loadCosts, handleAddCost and handleDeleteCost
Catch(a, kind, message) ==
    IF kind = "load"
    THEN [showNotification(a, "Failed to load costs", "error")
             EXCEPT !.console = TRUE, !.loading = FALSE]
    ELSE IF kind = "add"
    THEN [showNotification([a EXCEPT !.error = "Failed to add cost: " \o message],
                           "Failed to add cost", "error")
             EXCEPT !.console = TRUE]
    ELSE [showNotification(a, "Failed to delete cost", "error") EXCEPT !.console = TRUE]

\* what follows const [monthCosts, totals] = await Promise.all([...])
Loaded(a, kind, monthCosts, totals) ==
    LET set == [a EXCEPT !.costs = monthCosts, !.categoryTotals = totals]
    IN  IF kind = "load" THEN [set EXCEPT !.loading = FALSE]
        ELSE IF kind = "add" THEN showNotification(set, "Cost added successfully", "success")
        ELSE showNotification(set, "Cost deleted successfully", "success")

\* the async function behind a call: which function (kind) of which run (h),
\* the call's place in it (part), the year and month the function read, and
\* what its Promise.all holds so far
Waiting(h, kind, part, year, month) ==
    [h |-> h, kind |-> kind, part |-> part, year |-> year, month |-> month,
     dead |-> FALSE, have |-> FALSE, monthCosts |-> <<>>, totals |-> EmptyObject]

\* Promise.all([db.getCostsByMonth(year, month), db.getCostsByCategory(year, month)])
PromiseAll(a, kind, year, month) ==
    /\ IF db = "null"
       THEN /\ Throw("getCostsByMonth", [year |-> year, month |-> month])
            /\ app' = Catch(a, kind, NotInitialized)
       ELSE /\ txq' = txq \o
                   <<[op |-> "getCostsByMonth", arg |-> [year |-> year, month |-> month],
                      phase |-> "pending"],
                     [op |-> "getCostsByCategory", arg |-> [year |-> year, month |-> month],
                      phase |-> "pending"]>>
            /\ app' = [a EXCEPT !.started = @ + 1,
                         !.calls = @ \o
                            <<Waiting(a.started + 1, kind, "costs", year, month),
                              Waiting(a.started + 1, kind, "totals", year, month)>>]
            /\ UNCHANGED <<tz, now, db, openRequest, dbVersion, objectStoreNames,
                           indexNames, records, indexes, keyGen, last, returned>>
    /\ UNCHANGED report

\* variant: the instance is put in the state before its init is awaited
initDb_SetDbFirst ==
    /\ init
    /\ app' = [app EXCEPT !.db = "set", !.effect = TRUE]
    /\ UNCHANGED report

\* useEffect(() => { initDb() }, []): await costManagerDB.init()
initDb ==
    /\ init
    /\ UNCHANGED ui

\* the upgrade of the open request of initDb
initDb_onupgradeneeded ==
    /\ onupgradeneeded
    /\ UNCHANGED ui

\* init resolves: setDb(costManagerDB); finally setLoading(false)
initDb_resolved ==
    /\ onsuccess
    /\ app' = [app EXCEPT !.db = "set", !.loading = FALSE, !.effect = TRUE]
    /\ UNCHANGED report

\* init rejects: setError(...); finally setLoading(false)
initDb_rejected ==
    /\ onerror
    /\ app' = [app EXCEPT !.error = InitFailed, !.console = TRUE, !.loading = FALSE]
    /\ UNCHANGED report

\* useEffect(() => { if (!db) return; loadCosts() }, [db, selectedDate])
loadCosts_effect ==
    /\ Idle
    /\ app.effect
    /\ IF app.db = "null"
       THEN /\ app' = [app EXCEPT !.effect = FALSE]
            /\ UNCHANGED <<tz, now, db, openRequest, dbVersion, objectStoreNames,
                           indexNames, records, indexes, keyGen, txq, last, returned,
                           report>>
       ELSE PromiseAll([app EXCEPT !.effect = FALSE, !.loading = TRUE], "load",
                       app.selectedDate.year, app.selectedDate.month)

\* onDateChange={setSelectedDate}
setSelectedDate(date) ==
    /\ Interactive
    /\ app.clicks < MaxClicks
    /\ app' = [app EXCEPT !.selectedDate = date, !.effect = TRUE, !.clicks = @ + 1]
    /\ UNCHANGED <<tz, now, db, openRequest, dbVersion, objectStoreNames, indexNames,
                   records, indexes, keyGen, txq, last, returned, report>>

\* this.db.transaction(['costs'], 'readwrite') and the request of a write
Write(a, call, kind) ==
    /\ txq' = Append(txq, call)
    /\ app' = [a EXCEPT !.started = @ + 1,
               !.calls = Append(@, Waiting(a.started + 1, kind, "write",
                                           a.selectedDate.year, a.selectedDate.month))]
    /\ UNCHANGED <<tz, db, openRequest, dbVersion, objectStoreNames, indexNames,
                   records, indexes, keyGen, last, returned, report>>

\* <AddCostForm onSubmit={handleAddCost} disabled={loading}/>: the form does
\* not read its disabled property.  handleAddCost up to await db.addCost(costData)
handleAddCost(costData) ==
    /\ Interactive
    /\ now <= MaxAdds
    /\ IF app.db = "null" \/ db = "null"
       THEN /\ Throw("addCost", costData)
            /\ app' = Catch(app, "add", NotInitialized)
            /\ UNCHANGED report
       ELSE /\ Write(app, [op |-> "addCost", arg |-> costData, phase |-> "pending",
                           entry |-> CostEntry(costData, tz, now)], "add")
            /\ now' = now + 1

\* the delete button of a row of the report: handleDeleteCost up to
\* await db.deleteCost(id)
handleDeleteCost(id) ==
    /\ Interactive
    /\ app.clicks < MaxClicks
    /\ \E k \in 1..Len(app.costs) : app.costs[k].id = id
    /\ IF app.db = "null" \/ db = "null"
       THEN /\ Throw("deleteCost", [id |-> id])
            /\ app' = [Catch(app, "delete", NotInitialized) EXCEPT !.clicks = @ + 1]
            /\ UNCHANGED report
       ELSE /\ Write([app EXCEPT !.clicks = @ + 1],
                      [op |-> "deleteCost", arg |-> [id |-> id], phase |-> "pending"],
                      "delete")
            /\ UNCHANGED now

\* the refresh of handleAddCost and handleDeleteCost after their write resolved
Refresh ==
    /\ ~Idle
    /\ PromiseAll([app EXCEPT !.job = NoJob], app.job.kind, app.job.year, app.job.month)

\* the other call of the Promise.all of call i, if it is still in flight
Sibling(calls, h) == {j \in 1..Len(calls) : calls[j].h = h}

\* App after the request of call i succeeded
AfterSuccess(i) ==
    LET c == app.calls[i]
        rest == Remove(app.calls, i)
        others == Sibling(rest, c.h)
    IN  IF c.part = "write"
        THEN [app EXCEPT !.calls[i].part = "settled",
                         !.job = [kind |-> c.kind, year |-> c.year, month |-> c.month]]
        ELSE IF c.dead
        THEN [app EXCEPT !.calls = rest]
        ELSE IF others # {}
        THEN [app EXCEPT !.calls =
                 [j \in 1..Len(rest) |->
                     IF j \in others
                     THEN IF c.part = "costs"
                          THEN [rest[j] EXCEPT !.have = TRUE,
                                               !.monthCosts = ResultOf(txq[i])]
                          ELSE [rest[j] EXCEPT !.have = TRUE,
                                               !.totals = ResultOf(txq[i])]
                     ELSE rest[j]]]
        ELSE Loaded([app EXCEPT !.calls = rest], c.kind,
                    IF c.part = "costs" THEN ResultOf(txq[i]) ELSE c.monthCosts,
                    IF c.part = "totals" THEN ResultOf(txq[i]) ELSE c.totals)

\* App after the request of call i failed
AfterError(i) ==
    LET c == app.calls[i]
        rest == Remove(app.calls, i)
        others == Sibling(rest, c.h)
    IN  IF c.dead
        THEN [app EXCEPT !.calls = rest]
        ELSE Catch([app EXCEPT !.calls =
                       [j \in 1..Len(rest) |->
                           IF j \in others THEN [rest[j] EXCEPT !.dead = TRUE]
                           ELSE rest[j]]],
                   c.kind, ErrorOf(txq[i].op))

App_RequestOnSuccess(i) ==
    /\ Idle
    /\ RequestOnSuccess(i)
    /\ app' = AfterSuccess(i)
    /\ UNCHANGED report

App_RequestOnError(i) ==
    /\ Idle
    /\ RequestOnError(i)
    /\ app' = AfterError(i)
    /\ UNCHANGED report

App_TransactionComplete(i) ==
    /\ Idle
    /\ TransactionComplete(i)
    /\ app' = [app EXCEPT !.calls = Remove(@, i)]
    /\ UNCHANGED report

App_TransactionAbort(i) ==
    /\ Idle
    /\ TransactionAbort(i)
    /\ app' = [app EXCEPT !.calls = Remove(@, i)]
    /\ UNCHANGED report

\* the page is loaded: both effects of the first render are due
InitApp ==
    /\ tz = 0
    /\ now = 1
    /\ db = "null"
    /\ openRequest = "none"
    /\ dbVersion = 0
    /\ objectStoreNames = {}
    /\ indexNames = {}
    /\ records = {}
    /\ indexes = [n \in IndexNames |-> {}]
    /\ keyGen = 1
    /\ txq = <<>>
    /\ last = NoCall
    /\ returned = <<>>
    /\ \E date \in SelectableMonths : app = [useState_App(date) EXCEPT !.effect = TRUE]
    /\ report = useState_CostReport(<<>>)

NextApp ==
    \/ initDb
    \/ initDb_onupgradeneeded
    \/ initDb_resolved
    \/ initDb_rejected
    \/ loadCosts_effect
    \/ \E date \in SelectableMonths : setSelectedDate(date)
    \/ \E costData \in FormData : handleAddCost(costData)
    \/ \E id \in Ids : handleDeleteCost(id)
    \/ Refresh
    \/ \E i \in 1..Len(txq) : App_RequestOnSuccess(i)
    \/ \E i \in 1..Len(txq) : App_RequestOnError(i)
    \/ \E i \in 1..Len(txq) : App_TransactionComplete(i)
    \/ \E i \in 1..Len(txq) : App_TransactionAbort(i)

SpecApp == InitApp /\ [][NextApp]_vars

----------------------------------------------------------------------------
(* CostReport (src/unnamed/part_003) and CostChart, given the costs and the *)
(* category totals that App fetched from one state of the store.  A text is *)
(* the sequence of its characters.  An amount is a JavaScript number, here  *)
(* hi * 2^53 + lo with a small lo: the integers up to 2^53 are numbers, and *)
(* above 2^53 a sum is rounded to the nearest number, ties to even.         *)

Num(hi, lo) == [hi |-> hi, lo |-> lo]

\* the number nearest to hi * 2^53 + lo, for hi in -3..3
Round(hi, lo) ==
    LET neg == hi < 0 \/ (hi = 0 /\ lo < 0)
        a == IF neg THEN 0 - hi ELSE hi
        b == IF neg THEN 0 - lo ELSE lo
        ulp == IF a = 0 \/ (a = 1 /\ b <= 0) THEN 1
               ELSE IF a = 1 \/ (a = 2 /\ b < 0) THEN 2
               ELSE 4
        q == b \div ulp
        r == b - q * ulp
        n == IF 2 * r < ulp THEN q
             ELSE IF 2 * r > ulp THEN q + 1
             ELSE IF q % 2 = 0 THEN q ELSE q + 1
    IN  IF neg THEN Num(0 - a, 0 - n * ulp) ELSE Num(a, n * ulp)

\* x + y
Plus(x, y) == Round(x.hi + y.hi, x.lo + y.lo)

\* x < y
Less(x, y) == x.hi < y.hi \/ (x.hi = y.hi /\ x.lo < y.lo)

Food == <<"F", "o", "o", "d">>
Housing == <<"H", "o", "u", "s", "i", "n", "g">>

\* a record as getCostsByMonth returns it
Row(id, day, category, amount) ==
    [id |-> id, date |-> D(2024, 3, day), category |-> category,
     description |-> IF category = Food THEN <<"L", "u", "n", "c", "h">>
                     ELSE <<"R", "e", "n", "t">>,
     amount |-> amount]

\* a month of six records, and the months of three records whose amounts are
\* 1, 2^53 or -2^53
ReportMonths ==
    {[k \in 1..6 |-> Row(k, k, IF k % 2 = 1 THEN Food ELSE Housing, Num(0, 10 * k))]}
        \cup
    {[k \in 1..3 |-> Row(k, 5, c[k], a[k])] :
        c \in [1..3 -> {Food, Housing}],
        a \in [1..3 -> {Num(0, 1), Num(1, 0), Num(-1, 0)}]}

\* what is typed in the search field
SearchTexts == {<<>>, <<"f", "o">>, <<"N">>, <<"x">>}

\* s.toLowerCase()
ToLowerCase(s) ==
    [i \in 1..Len(s) |->
        CASE s[i] = "F" -> "f" [] s[i] = "H" -> "h" [] s[i] = "L" -> "l"
          [] s[i] = "R" -> "r" [] s[i] = "N" -> "n" [] OTHER -> s[i]]

\* s.includes(part)
Includes(s, part) ==
    \E i \in 1..(Len(s) - Len(part) + 1) : SubSeq(s, i, i + Len(part) - 1) = part

\* the comparison of stableSort: multiplier * (aVal < bVal ? -1 : aVal > bVal ? 1 : 0)
Before(a, b, orderBy, order) ==
    LET lt == IF orderBy = "amount" THEN Less(a.amount, b.amount)
              ELSE DayNumber(a.date) < DayNumber(b.date)
        gt == IF orderBy = "amount" THEN Less(b.amount, a.amount)
              ELSE DayNumber(b.date) < DayNumber(a.date)
    IN  IF order = "desc" THEN gt ELSE lt

\* [...array].sort(compare): elements that compare equal keep their order
RECURSIVE stableSort(_, _, _)
stableSort(array, orderBy, order) ==
    IF array = <<>> THEN <<>>
    ELSE LET i == CHOOSE k \in 1..Len(array) :
                      /\ \A j \in 1..Len(array) : ~Before(array[j], array[k], orderBy, order)
                      /\ \A j \in 1..(k - 1) : Before(array[k], array[j], orderBy, order)
         IN  <<array[i]>> \o stableSort(Remove(array, i), orderBy, order)

\* costs.filter(...) sorted
filteredAndSortedCosts(r) ==
    stableSort(SelectSeq(r.costs,
                         LAMBDA cost :
                            \/ Includes(ToLowerCase(cost.description), ToLowerCase(r.search))
                            \/ Includes(ToLowerCase(cost.category), ToLowerCase(r.search))),
               r.orderBy, r.order)

\* array.reduce((sum, x) => sum + x, 0) over the numbers of a sequence
RECURSIVE SumFrom(_, _)
SumFrom(sum, numbers) ==
    IF numbers = <<>> THEN sum ELSE SumFrom(Plus(sum, Head(numbers)), Tail(numbers))

\* CostReport: filteredAndSortedCosts.reduce((sum, cost) => sum + cost.amount, 0)
totalAmount_CostReport(r) ==
    LET rows == filteredAndSortedCosts(r)
    IN  SumFrom(Num(0, 0), [k \in 1..Len(rows) |-> rows[k].amount])

\* getCostsByCategory: the object of the totals, its keys in the order in
\* which they were set: acc[cost.category] = (acc[cost.category] || 0) + cost.amount
RECURSIVE Entries(_, _)
Entries(costs, acc) ==
    IF costs = <<>> THEN acc
    ELSE LET cost == Head(costs)
             at == {k \in 1..Len(acc) : acc[k].name = cost.category}
         IN  Entries(Tail(costs),
                     IF at = {}
                     THEN Append(acc, [name |-> cost.category,
                                       value |-> Plus(Num(0, 0), cost.amount)])
                     ELSE [k \in 1..Len(acc) |->
                              IF k \in at
                              THEN [acc[k] EXCEPT !.value = Plus(@, cost.amount)]
                              ELSE acc[k]])

\* CostChart: chartData.reduce((sum, item) => sum + item.value, 0)
totalAmount_CostChart(r) ==
    LET chartData == Entries(r.costs, <<>>)
    IN  SumFrom(Num(0, 0), [k \in 1..Len(chartData) |-> chartData[k].value])

\* the store and App, which CostReport does not touch
outside == <<tz, now, db, openRequest, dbVersion, objectStoreNames, indexNames,
             records, indexes, keyGen, txq, last, returned, app>>

\* TablePagination: the back button is live after the first page, the next
\* button before the last one; handleChangePage: setPage(newPage)
handleChangePage(newPage) ==
    /\ \/ newPage = report.page - 1 /\ report.page > 0
       \/ /\ newPage = report.page + 1
          /\ report.page < (Len(filteredAndSortedCosts(report)) + report.rowsPerPage - 1)
                              \div report.rowsPerPage - 1
    /\ report' = [report EXCEPT !.page = newPage]
    /\ UNCHANGED outside

\* setRowsPerPage(parseInt(event.target.value, 10)); setPage(0)
handleChangeRowsPerPage(value) ==
    /\ value # report.rowsPerPage
    /\ report' = [report EXCEPT !.rowsPerPage = value, !.page = 0]
    /\ UNCHANGED outside

\* onChange={(e) => setSearch(e.target.value)}
setSearch(value) ==
    /\ value # report.search
    /\ report' = [report EXCEPT !.search = value]
    /\ UNCHANGED outside

\* handleRequestSort(property), from the headers Date and Amount
handleRequestSort(property) ==
    /\ report' = [report EXCEPT
                    !.order = IF report.orderBy = property /\ report.order = "asc"
                              THEN "desc" ELSE "asc",
                    !.orderBy = property]
    /\ UNCHANGED outside

\* the delete button of a row on the page: App deletes the record and gives
\* the report the month without it
Report_onDeleteCost(id) ==
    /\ LET rows == filteredAndSortedCosts(report)
       IN  \E k \in (report.page * report.rowsPerPage + 1)..
                    (report.page * report.rowsPerPage + report.rowsPerPage) :
              k <= Len(rows) /\ rows[k].id = id
    /\ report' = [report EXCEPT !.costs = SelectSeq(@, LAMBDA cost : cost.id # id)]
    /\ UNCHANGED outside

\* the date picker: App loads the month and gives the report its costs
Report_onDateChange(costs) ==
    /\ costs # report.costs
    /\ report' = [report EXCEPT !.costs = costs]
    /\ UNCHANGED outside

InitReport ==
    /\ tz = 0
    /\ now = 1
    /\ db = "open"
    /\ openRequest = "success"
    /\ dbVersion = Version
    /\ objectStoreNames = {"costs"}
    /\ indexNames = IndexNames
    /\ records = {}
    /\ indexes = [n \in IndexNames |-> {}]
    /\ keyGen = 1
    /\ txq = <<>>
    /\ last = NoCall
    /\ returned = <<>>
    /\ app = useState_App(Today)
    /\ \E costs \in ReportMonths : report = useState_CostReport(costs)

NextReport ==
    \/ \E newPage \in 0..1 : handleChangePage(newPage)
    \/ \E value \in {5, 10, 25} : handleChangeRowsPerPage(value)
    \/ \E value \in SearchTexts : setSearch(value)
    \/ \E property \in {"date", "amount"} : handleRequestSort(property)
    \/ \E id \in 1..6 : Report_onDeleteCost(id)
    \/ \E costs \in ReportMonths : Report_onDateChange(costs)

SpecReport == InitReport /\ [][NextReport]_vars

----------------------------------------------------------------------------
(* Properties *)

\* the zero-padded YYYY-MM of a date string
ZeroPaddedYearMonth(s) ==
    ToString(s.y) \o "-" \o (IF s.m < 10 THEN "0" ELSE "") \o ToString(s.m)

RECURSIVE SumAmounts(_)
SumAmounts(S) ==
    IF S = {} THEN 0
    ELSE LET r == CHOOSE x \in S : TRUE IN r.amount + SumAmounts(S \ {r})

\* the records of a sequence grouped by category, the amounts of a group summed
GroupedSums(costs) ==
    LET S == {costs[k] : k \in 1..Len(costs)}
    IN  [c \in {r.category : r \in S} |-> SumAmounts({r \in S : r.category = c})]

InputFields == {"amount", "category", "description", "date"}

\* C1: once addCost of an expense with a parseable date has resolved with an id
\* and its write is stored, getCostsByMonth for the year and month of the
\* expense's date returns exactly one record with that id, and the record equals
\* the input in amount, category, description and date, under every time-zone
\* offset and for the first and last day of a month.
C1_AddThenListByMonth ==
    (/\ last.op = "addCost"
     /\ last.promise = "resolved"
     /\ last.txn = "complete"
     /\ Parseable(last.arg.date))
    => LET found == MonthQuery(last.arg.date.y, last.arg.date.m)
           hits == {k \in 1..Len(found) : found[k].id = last.value}
       IN  /\ Cardinality(hits) = 1
           /\ \A k \in hits : \A f \in InputFields : found[k][f] = last.arg[f]

\* C2: in every reachable state, the monthYear of every stored record with a
\* parseable date is the zero-padded YYYY-MM of the record's stored date,
\* whatever the time-zone offset and whatever monthYear or timestamp the
\* submitted expense carried.
C2_MonthYearOfStoredDate ==
    \A r \in records : Parseable(r.date) => r.monthYear = ZeroPaddedYearMonth(r.date)

\* C3: for every year and month and every reachable state of the store, the
\* mapping getCostsByCategory computes equals the records getCostsByMonth
\* returns grouped by category with the amounts of each group summed, and it
\* is the empty mapping when getCostsByMonth returns no record.
C3_TotalsAreGroupedSums ==
    \A ym \in Months :
        LET costs == MonthQuery(ym.year, ym.month)
            totals == CategoryTotals(ym.year, ym.month)
        IN  /\ totals = GroupedSums(costs)
            /\ costs = <<>> => totals = EmptyObject

\* a state where getCostsByCategory has resolved with the sum of two records of
\* one category
C3_Witness ==
    /\ last.op = "getCostsByCategory"
    /\ last.promise = "resolved"
    /\ "Food" \in DOMAIN last.value
    /\ last.value["Food"] = 70
    /\ Len(MonthQuery(last.arg.year, last.arg.month)) >= 2

\* C4: the ids that successive addCost promises resolve with are positive and
\* strictly increasing, so none repeats, also with deletes between the adds.
C4_ReturnedIdsIncrease ==
    \A k \in 1..Len(returned) :
        /\ returned[k] > 0
        /\ k > 1 => returned[k] > returned[k - 1]

\* C5: when a deleteCost(id) of an existing record has resolved and its
\* transaction is over, no record with that id is left, every other record is
\* as it was, and getCostsByCategory of every other month yields the mapping
\* it yielded before.
C5_DeleteFrame ==
    [][\A i \in 1..Len(txq) :
          (/\ txq[i].op = "deleteCost"
           /\ txq[i].phase = "settled"
           /\ KeyExists(txq[i].arg.id)
           /\ Len(txq') < Len(txq)
           /\ txq' = Remove(txq, i))
          => LET gone == CHOOSE r \in records : r.id = txq[i].arg.id
             IN  /\ records' = records \ {gone}
                 /\ \A ym \in Months :
                       MonthYearKey(ym.year, ym.month) # gone.monthYear
                       => CategoryTotals(ym.year, ym.month)'
                              = CategoryTotals(ym.year, ym.month)]_vars

\* C7: addCost is atomic: a step in which addCost fails leaves the records, the
\* indexes and the key generator as they were, and once addCost has resolved
\* with an id and its transaction is over, the full record with monthYear,
\* timestamp and that id is in the store.
C7_AddAtomic ==
    [][/\ (last'.op = "addCost" /\ last'.promise = "rejected")
          => UNCHANGED <<records, indexes, keyGen>>
       /\ \A i \in 1..Len(txq) :
             (/\ txq[i].op = "addCost"
              /\ txq[i].phase = "settled"
              /\ Len(txq') < Len(txq)
              /\ txq' = Remove(txq, i))
             => \E r \in records' :
                   /\ r.id = txq[i].value
                   /\ r.monthYear = txq[i].entry.monthYear
                   /\ r.timestamp = txq[i].entry.timestamp
                   /\ \A f \in InputFields : r[f] = txq[i].arg[f]]_vars

\* C8: the promise of addCost never resolves with an id for a write whose
\* transaction aborts: when addCost has resolved and its transaction is over,
\* the transaction has committed and the record with that id is stored.
C8_ResolvedMeansCommitted ==
    (last.op = "addCost" /\ last.promise = "resolved")
    => /\ last.txn = "complete"
       /\ KeyExists(last.value)

\* a call fails with the error of a missing handle, or no call ends
ThrownOrUntouched ==
    \/ /\ last'.promise = "rejected"
       /\ last'.txn = "none"
       /\ last'.value = NotInitialized
    \/ UNCHANGED last

\* C6: deleteCost(id) for an id that is not in the store can resolve, and
\* the steps of resolving and finishing it leave the records, the indexes and
\* the key generator as they were, so a second deleteCost(id) changes nothing.
C6_DeleteAbsent ==
    /\ [](\A i \in 1..Len(txq) :
            (/\ CanRun(i)
             /\ txq[i].op = "deleteCost"
             /\ ~KeyExists(txq[i].arg.id))
            => ENABLED RequestOnSuccess(i))
    /\ [][\A i \in 1..Len(txq) :
            (/\ txq[i].op = "deleteCost"
             /\ ~KeyExists(txq[i].arg.id)
             /\ \/ Len(txq') < Len(txq) /\ txq' = Remove(txq, i)
                \/ Len(txq') = Len(txq) /\ txq[i].phase = "pending"
                                        /\ txq'[i].phase = "settled")
            => UNCHANGED <<records, indexes, keyGen>>]_vars

\* a deleteCost of an id that is not in the store has resolved while other
\* records are stored
C6_Witness ==
    /\ records # {}
    /\ \E i \in 1..Len(txq) :
          /\ txq[i].op = "deleteCost"
          /\ txq[i].phase = "settled"
          /\ ~KeyExists(txq[i].arg.id)

\* C9: while this.db is null (init not called, pending or failed), each of
\* addCost, getCostsByMonth, getCostsByCategory and deleteCost can be called,
\* and every step leaves the queue of transactions, the records, the indexes
\* and the key generator unchanged, a call ending with the error
\* 'Database not initialized' and without a transaction.
C9_NotInitialized ==
    /\ [](db = "null" =>
            /\ \A cost \in Expenses : ENABLED addCost(cost)
            /\ \A ym \in Months : /\ ENABLED getCostsByMonth(ym.year, ym.month)
                                  /\ ENABLED getCostsByCategory(ym.year, ym.month)
            /\ \A id \in Ids : ENABLED deleteCost(id))
    /\ [][db = "null" =>
            /\ txq' = txq
            /\ UNCHANGED <<records, indexes, keyGen>>
            /\ ThrownOrUntouched]_vars

\* a call has failed for the missing handle while init is pending on a
\* database that holds records
C9_Witness ==
    /\ db = "null"
    /\ openRequest = "pending"
    /\ records # {}
    /\ last.op = "getCostsByCategory"
    /\ last.promise = "rejected"
    /\ last.txn = "none"
    /\ last.value = NotInitialized

\* C10: when the open request fails, init is rejected and this.db stays null;
\* from then on every call on the instance fails without a transaction and
\* the store is left unchanged.
C10_InitFailure ==
    /\ [](openRequest = "error" => db = "null" /\ txq = <<>>)
    /\ [][openRequest' = "error" =>
            /\ db' = "null"
            /\ txq' = <<>>
            /\ UNCHANGED <<records, indexes, keyGen>>
            /\ openRequest = "error" => ThrownOrUntouched]_vars

\* init has failed on a database that holds records, and a later addCost on
\* the instance has failed
C10_Witness ==
    /\ openRequest = "error"
    /\ records # {}
    /\ last.op = "addCost"
    /\ last.promise = "rejected"
    /\ last.txn = "none"

\* C11: init is idempotent.  The first open of the database creates the 'costs'
\* store and its indexes date, category and monthYear; an open of a database
\* that already has the version creates nothing and leaves the schema, the
\* records, the indexes and the key generator as they were; and whenever init
\* has resolved, the store and its three indexes exist.
C11_InitIdempotent ==
    /\ [](openRequest = "success" =>
            /\ db = "open"
            /\ "costs" \in objectStoreNames
            /\ indexNames = {"date", "category", "monthYear"})
    /\ [](openRequest = "pending" =>
            IF dbVersion = Version
            THEN ~ENABLED onupgradeneeded /\ ENABLED onsuccess
            ELSE ENABLED onupgradeneeded)
    /\ [][/\ (openRequest = "pending" /\ dbVersion = 0 /\ openRequest' = "upgrading")
             => /\ objectStoreNames' = {"costs"}
                /\ indexNames' = {"date", "category", "monthYear"}
          /\ (openRequest = "pending" /\ dbVersion = Version)
             => UNCHANGED <<dbVersion, objectStoreNames, indexNames>>
          /\ (openRequest' # openRequest \/ db' # db)
             => UNCHANGED <<records, indexes, keyGen>>]_vars

\* a later instance has opened the database again after records were stored:
\* a call on it failed for the missing handle before its init resolved
C11_Witness ==
    /\ openRequest = "success"
    /\ records # {}
    /\ keyGen > 1
    /\ last.promise = "rejected"
    /\ last.txn = "none"
    /\ last.value = NotInitialized

\* the entries an index on a key path holds for a set of records
EntriesOf(n, recs) == {<<r[n], r.id>> : r \in {x \in recs : n \in DOMAIN x}}

\* C12: in every reachable state, whatever addCost and deleteCost calls have
\* succeeded, failed or are in flight, each of the indexes date, category and
\* monthYear holds one entry for every record of the store and no entry for
\* anything else: no record is missing from the monthYear index, and no entry
\* refers to a deleted or never-committed record.
C12_IndexesMatchRecords ==
    \A n \in IndexNames :
        /\ indexes[n] = EntriesOf(n, records)
        /\ \A r \in records : \E e \in indexes[n] : e[2] = r.id
        /\ \A e \in indexes[n] : KeyExists(e[2])

\* the record with id 1 was stored and indexed and has been deleted, while
\* the record that was given id 2 after it is still stored
C12_Witness ==
    /\ last.op = "deleteCost"
    /\ last.txn = "complete"
    /\ last.arg.id = 1
    /\ returned = <<1, 2>>
    /\ \E r \in records : r.id = 2 /\ r.description = "Snack"
    /\ Cardinality(records) = 1

\* C13: records are write-once.  No two records share an id, and in every
\* step every stored record either stays in the store with all of its fields
\* as they were, also when an addCost carries the id of a stored record, or
\* it leaves the store in the commit of a deleteCost of its id.
C13_WriteOnce ==
    /\ [](\A r1, r2 \in records : r1.id = r2.id => r1 = r2)
    /\ [][\A r \in records :
            \/ r \in records'
            \/ /\ \A x \in records' : x.id # r.id
               /\ \E i \in 1..Len(txq) :
                     /\ txq[i].op = "deleteCost"
                     /\ txq[i].phase = "settled"
                     /\ txq[i].arg.id = r.id
                     /\ txq' = Remove(txq, i)]_vars

\* an addCost whose expense carries the id of a stored record has failed,
\* and the record stored under that id is the one of the earlier addCost
C13_Witness ==
    /\ last.op = "addCost"
    /\ last.promise = "rejected"
    /\ last.txn = "aborted"
    /\ "id" \in DOMAIN last.arg
    /\ now = 3
    /\ \E r \in records : r.id = last.arg.id /\ r.timestamp = 1

\* C14: the id of every stored record is the one the store generated for it:
\* a record enters the store under the key generator's current number,
\* whatever fields its expense carried, the ids of the stored records lie below
\* the generator's number, and the number never decreases, so that the id of a
\* deleted record is not given out again.
C14_IdAssignedByStore ==
    /\ [](\A r \in records : r.id < keyGen)
    /\ [][/\ \A r \in records' \ records : r.id = keyGen
          /\ keyGen' >= keyGen]_vars

\* C15: getCostsByCategory fails with the failure of the month query under
\* it: when its call has ended on a failed read or without a handle, its
\* promise is rejected, not resolved with a mapping, and the error is the one
\* getCostsByMonth gives for that failure ('Database not initialized' or
\* 'Failed to get costs').
C15_SameFailureKinds ==
    (last.op = "getCostsByCategory" /\ last.txn \in {"aborted", "none"})
    => /\ last.promise = "rejected"
       /\ last.value = (IF last.txn = "none" THEN NotInitialized
                        ELSE ErrorOf("getCostsByMonth"))

\* the last call has resolved and was the query op of the month
Answered(op, month) ==
    /\ last.op = op
    /\ last.promise = "resolved"
    /\ last.arg.month = month

\* C16: in the session that adds Lunch (50, Food, 2024-03-05), Snack (20, Food,
\* 2024-03-20) and Rent (100, Housing, 2024-04-01) to an empty store: with the
\* three records stored, getCostsByMonth(2024, 3) returns 2 records,
\* getCostsByCategory(2024, 3) is {Food: 70} and getCostsByCategory(2024, 4)
\* is {Housing: 100}; with the Lunch record deleted,
\* getCostsByCategory(2024, 3) is {Food: 20}.
C16_Scenario ==
    /\ (Cardinality(records) = 3 /\ Answered("getCostsByMonth", 3))
       => Len(last.value) = 2
    /\ (Cardinality(records) = 3 /\ Answered("getCostsByCategory", 3))
       => last.value = [c \in {"Food"} |-> 70]
    /\ (Cardinality(records) = 3 /\ Answered("getCostsByCategory", 4))
       => last.value = [c \in {"Housing"} |-> 100]
    /\ (/\ Cardinality(records) = 2
        /\ ~KeyExists(returned[1])
        /\ Answered("getCostsByCategory", 3))
       => last.value = [c \in {"Food"} |-> 20]

\* no record of the store has the monthYear of the year and month
NoMatch(year, month) == \A r \in records : r.monthYear # MonthYearKey(year, month)

\* a step in which a call ends: its transaction leaves the queue, or it is
\* thrown out for the missing handle
CallEnds ==
    \/ Len(txq') < Len(txq)
    \/ db = "null" /\ UNCHANGED <<db, openRequest>>

\* C17: a getCostsByMonth on an initialized store with no record of the
\* requested monthYear can resolve, and when it resolves it resolves with the
\* empty sequence (and with a non-empty one only when a record matches); a
\* getCostsByMonth whose read fails, or that has no handle, is rejected with
\* its error and never resolved with a sequence.
C17_EmptyIsNotFailure ==
    /\ [](\A i \in 1..Len(txq) :
            (/\ CanRun(i)
             /\ txq[i].op = "getCostsByMonth"
             /\ NoMatch(txq[i].arg.year, txq[i].arg.month))
            => ENABLED RequestOnSuccess(i))
    /\ [][(CallEnds /\ last'.op = "getCostsByMonth")
          => IF last'.promise = "resolved"
             THEN /\ last'.txn = "complete"
                  /\ NoMatch(last'.arg.year, last'.arg.month) <=> last'.value = <<>>
             ELSE /\ last'.promise = "rejected"
                  /\ last'.txn \in {"aborted", "none"}
                  /\ last'.value \in {NotInitialized, ErrorOf("getCostsByMonth")}]_vars

\* getCostsByMonth has resolved with the empty sequence for a month without
\* records while the store holds records of another month
C17_Witness ==
    /\ last.op = "getCostsByMonth"
    /\ last.promise = "resolved"
    /\ last.value = <<>>
    /\ records # {}
    /\ NoMatch(last.arg.year, last.arg.month)

ReadOps == {"getCostsByMonth", "getCostsByCategory"}

\* a step of a getCostsByMonth or getCostsByCategory call: the call is
\* issued, or it ends in success, in failure or for the missing handle
ReadStep ==
    \/ Len(txq') > Len(txq) /\ txq'[Len(txq')].op \in ReadOps
    \/ CallEnds /\ last'.op \in ReadOps

\* C18: getCostsByMonth and getCostsByCategory are read-only: for every state
\* of the store and every year and month, no step of such a call, whether it
\* succeeds or fails, changes the records, the indexes, the key generator or
\* the schema.
C18_ReadsChangeNothing ==
    [][ReadStep => UNCHANGED <<records, indexes, keyGen, dbVersion,
                               objectStoreNames, indexNames>>]_vars

\* a getCostsByCategory has failed on a read error while the store holds
\* records
C18_Witness ==
    /\ last.op = "getCostsByCategory"
    /\ last.promise = "rejected"
    /\ last.txn = "aborted"
    /\ records # {}

\* the stored records whose monthYear is that of the year and month
RecordsOfMonth(year, month) ==
    {r \in records : r.monthYear = MonthYearKey(year, month)}

\* C19: the mapping getCostsByCategory resolves with has a key for a category
\* exactly when a record of the month has the category: a category without a
\* record in the month is no key of it, and a category with a record is a key
\* also when its amounts sum to zero, its value being that sum.
C19_KeysAreCategories ==
    (last.op = "getCostsByCategory" /\ last.promise = "resolved")
    => LET ofMonth == RecordsOfMonth(last.arg.year, last.arg.month)
       IN  /\ DOMAIN last.value = {r.category : r \in ofMonth}
           /\ \A c \in DOMAIN last.value :
                 last.value[c] = SumAmounts({r \in ofMonth : r.category = c})

\* getCostsByCategory has resolved with a key whose value is zero for a
\* category whose two records in the month cancel out
C19_Witness ==
    /\ last.op = "getCostsByCategory"
    /\ last.promise = "resolved"
    /\ \E c \in DOMAIN last.value :
          /\ last.value[c] = 0
          /\ \E r \in RecordsOfMonth(last.arg.year, last.arg.month) :
                r.category = c /\ r.amount # 0
    /\ Cardinality(records) = 2

\* a step in which a query of ReadOps ends with a result
ReadAnswered ==
    /\ Len(txq') < Len(txq)
    /\ last'.op \in ReadOps
    /\ last'.promise = "resolved"

\* C20: with getCostsByMonth and getCostsByCategory of a month issued together
\* and addCost or deleteCost calls in flight, a read is answered at one point
\* of the store between its issue and its end: no write is between its
\* request and its commit at that point, and the answer is the whole records
\* of the month in the store at that point (their grouped sums for
\* getCostsByCategory).  When the two reads of one month are answered with no
\* call ending between them, the mapping of getCostsByCategory is the grouped
\* sum of the sequence of getCostsByMonth.
C20_ReadsInterleaveSafely ==
    [][/\ ReadAnswered
          => LET ofMonth == SortById(RecordsOfMonth(last'.arg.year, last'.arg.month))
             IN  /\ \A j \in 1..Len(txq) : txq[j].phase # "settled"
                 /\ UNCHANGED <<records, indexes, keyGen>>
                 /\ last'.op = "getCostsByMonth" => last'.value = ofMonth
                 /\ last'.op = "getCostsByCategory" => last'.value = GroupedSums(ofMonth)
       /\ (/\ ReadAnswered
           /\ last.op \in ReadOps
           /\ last.op # last'.op
           /\ last.promise = "resolved"
           /\ last.arg = last'.arg)
          => IF last'.op = "getCostsByCategory"
             THEN last'.value = GroupedSums(last.value)
             ELSE last.value = GroupedSums(last'.value)]_vars

\* both reads of a month have been answered, the second with a mapping that
\* is not empty, while a write issued during them is in flight
C20_Witness ==
    /\ last.op = "getCostsByCategory"
    /\ last.promise = "resolved"
    /\ DOMAIN last.value # {}
    /\ Len(txq) = 1
    /\ txq[1].op \in {"addCost", "deleteCost"}
    /\ txq[1].phase = "pending"

\* C21: an operation that was issued ends: the promise of an init whose open
\* request is under way, also when the request is blocked by another
\* connection, is eventually resolved or rejected.
C21_EveryPromiseSettles ==
    (openRequest \in {"pending", "blocked", "unblocked", "upgrading"})
          ~> (openRequest \in {"success", "error"})

\* C22: App issues no call of addCost, getCostsByMonth, getCostsByCategory or
\* deleteCost unless init has resolved: every step in which a call enters the
\* queue, or is thrown back for a missing connection, is taken with the open
\* request succeeded, so none is taken before init resolved or after it failed.
C22_NoCallWithoutInit ==
    [][(\/ Len(txq') > Len(txq)
        \/ /\ last'.promise = "rejected"
           /\ last'.value = NotInitialized
           /\ last.promise # "rejected")
          => openRequest = "success"]_vars

\* the handlers have issued a delete and a query after init resolved
C22_Witness ==
    /\ openRequest = "success"
    /\ \E j \in 1..Len(txq) : txq[j].op = "deleteCost"
    /\ \E j \in 1..Len(txq) : txq[j].op = "getCostsByMonth"

\* what the store holds for the selected month is what App displays
DisplaysSelectedMonth ==
    /\ app.costs = MonthQuery(app.selectedDate.year, app.selectedDate.month)
    /\ app.categoryTotals = CategoryTotals(app.selectedDate.year, app.selectedDate.month)

\* no call is in flight and no async function of App has a step to take
Settled == txq = <<>> /\ Idle /\ ~app.effect

\* C23: after handleAddCost or handleDeleteCost has completed without error
\* (its success notification is shown, nothing has failed) and with no other
\* handler pending, the
\* displayed costs and category totals are those of the store for the selected
\* year and month.
C23_RefetchAfterWrite ==
    (/\ Settled
     /\ ~app.console
     /\ app.notification.open
     /\ app.notification.message \in {"Cost added successfully",
                                      "Cost deleted successfully"})
        => DisplaysSelectedMonth

\* C24: once every pending load and refresh has completed, none of them having
\* failed, the displayed costs and category totals are those of the currently
\* selected month in the store's current contents.
C24_LatestMonthWins ==
    (Settled /\ app.db = "set" /\ ~app.console) => DisplaysSelectedMonth

\* C25: only a failed init gives the error view: whenever App renders the
\* error view in place of the form, the chart and the report, no database
\* instance is in its state.
C25_AddFailureRecoverable ==
    View(app) = "error" => app.db = "null"

\* C26: while loading is true no submission of the form reaches handleAddCost:
\* every step in which handleAddCost calls addCost is taken with loading false.
C26_NoSubmitWhileLoading ==
    [][now' # now => ~app.loading]_vars

\* C27: in CostReport the page is in range: whenever the filtered list is not
\* empty, page * rowsPerPage is less than its length.
C27_PageInRange ==
    Len(filteredAndSortedCosts(report)) > 0
        => report.page * report.rowsPerPage < Len(filteredAndSortedCosts(report))

\* C28: with the search field empty, the total of CostChart over the category
\* totals equals the total of CostReport over the month's records.
C28_ChartTotalIsReportTotal ==
    report.search = <<>> => totalAmount_CostChart(report) = totalAmount_CostReport(report)

\* the queries getCostsByMonth(year, month) with month in 1..12 that return a record
MonthsReturning(r) ==
    {ym \in (2023..2025) \X (1..12) :
        \E k \in 1..Len(MonthQuery(ym[1], ym[2])) : MonthQuery(ym[1], ym[2])[k] = r}

\* C29: every stored record is returned by getCostsByMonth for exactly one
\* (year, month) with month in 1..12; no record sits under a key that no such
\* query reaches.
C29_EveryRecordReachable ==
    \A r \in records : Cardinality(MonthsReturning(r)) = 1

====
